---- MODULE Spec2Model ----
(***************************************************************************)
(* A model of repoview3.py: the RepoView generator that turns the package  *)
(* metadata of a dnf repository into one page per package, one page per    *)
(* group (comps groups, then letter groups) and an index.                  *)
(*                                                                         *)
(* Strings that the program inspects character by character (package       *)
(* names, group ids, file names) are sequences of one-character strings.   *)
(* Version strings are given by their rpmvercmp segmentation: the string   *)
(* "1.2" is <<1, 2>>, the epoch string "1" is <<1>>.                       *)
(***************************************************************************)
EXTENDS Integers, Sequences, FiniteSets, TLC

VARIABLES
    pc,             \* position of the run inside RepoView.__init__
    fs,             \* the output directory on disk
    layout_src,     \* tmpldir/layout is a directory
    comps,          \* dnfobj.comps.groups, in order
    sack,           \* the packages of the sack, in query order
    enum,           \* iteration order of set(all_pkgs)
    recents,        \* options.recents
    groups,         \* self.groups
    letters,        \* letters (repo_filler['letters'])
    letter_groups,  \* self.letter_groups
    sorted_pkgs,    \* sorted_pkgs of __init__
    latest,         \* self.latest
    worklist,       \* the list self.groups + self.letter_groups of proc_groups
    gidx,           \* number of worklist entries proc_groups has handled
    counter,        \* counter of proc_groups
    processed,      \* the group_filler of every group handled, in order
    write_log,      \* names of the files opened for writing, in order
    query_name,     \* argument of the last get_package_data call
    pkg_data,       \* result of the last get_package_data call
    run,            \* 1 for the first run over the metadata, 2 for the re-run
    prev,           \* what the first run left behind, once a re-run started
    fs0             \* the output directory as the run found it

vars == <<pc, fs, layout_src, comps, sack, enum, recents, groups, letters,
          letter_groups, sorted_pkgs, latest, worklist, gidx, counter,
          processed, write_log, query_name, pkg_data, run, prev, fs0>>

None == "None"

(***************************************************************************)
(* Sequences and sorting                                                   *)
(***************************************************************************)
Range(s) == {s[i] : i \in 1..Len(s)}

Min(a, b) == IF a < b THEN a ELSE b

Take(s, n) == SubSeq(s, 1, Min(n, Len(s)))

Reverse(s) == [i \in 1..Len(s) |-> s[Len(s) + 1 - i]]

SeqsUpTo(S, n) == UNION {[1..k -> S] : k \in 0..n}

Orderings(s) ==
    {[i \in 1..Len(s) |-> s[p[i]]] :
        p \in {q \in [1..Len(s) -> 1..Len(s)] : \A i, j \in 1..Len(s) : q[i] = q[j] => i = j}}

\* x goes in front of the first element it is strictly before: after its equals
StableInsert(s, x, Before(_, _)) ==
    LET later == {i \in 1..Len(s) : Before(x, s[i])}
        at    == IF later = {} THEN Len(s) + 1
                 ELSE CHOOSE i \in later : \A j \in later : i <= j
    IN  SubSeq(s, 1, at - 1) \o <<x>> \o SubSeq(s, at, Len(s))

\* list.sort / sorted: a stable sort
StableSort(s, Before(_, _)) ==
    LET f[i \in 0..Len(s)] ==
            IF i = 0 THEN <<>> ELSE StableInsert(f[i - 1], s[i], Before)
    IN  f[Len(s)]

\* list(dict.fromkeys(lst)): the distinct items, each at its first position
FromKeys(s) ==
    LET f[i \in 0..Len(s)] ==
            IF i = 0 THEN <<>>
            ELSE IF s[i] \in Range(f[i - 1]) THEN f[i - 1]
                 ELSE Append(f[i - 1], s[i])
    IN  f[Len(s)]

(***************************************************************************)
(* Strings                                                                 *)
(***************************************************************************)
CharCode(c) ==
    CASE c = " " -> 32 [] c = "." -> 46 [] c = "/" -> 47 [] c = "_" -> 95
      [] c = "a" -> 97 [] c = "b" -> 98 [] c = "c" -> 99 [] c = "d" -> 100
      [] c = "g" -> 103 [] c = "h" -> 104 [] c = "l" -> 108 [] c = "m" -> 109
      [] c = "n" -> 110 [] c = "o" -> 111 [] c = "p" -> 112 [] c = "r" -> 114
      [] c = "t" -> 116 [] c = "u" -> 117 [] c = "x" -> 120 [] c = "y" -> 121
      [] c = "z" -> 122

\* str < str of Python: by code point, a proper prefix first
RECURSIVE StrLess(_, _)
StrLess(a, b) ==
    IF b = <<>> THEN FALSE
    ELSE IF a = <<>> THEN TRUE
    ELSE IF CharCode(Head(a)) # CharCode(Head(b))
         THEN CharCode(Head(a)) < CharCode(Head(b))
    ELSE StrLess(Tail(a), Tail(b))

SortedStrings(s) == StableSort(s, StrLess)

Replace(text, old, new) == [i \in 1..Len(text) |-> IF text[i] = old THEN new ELSE text[i]]

ezname(text) == Replace(Replace(text, "/", "."), " ", "_")

FILE_PKG(s) == s \o <<".", "h", "t", "m", "l">>

FILE_GRP(s) == s \o <<".", "g", "r", "o", "u", "p", ".", "h", "t", "m", "l">>

FILE_INDEX == <<"i", "n", "d", "e", "x", ".", "h", "t", "m", "l">>

unique_first_chara(lst) ==
    StableSort(FromKeys([i \in 1..Len(lst) |-> <<lst[i][1]>>]), StrLess)

uniqlist(lst) == StableSort(FromKeys(lst), StrLess)

(***************************************************************************)
(* Version comparison (rpm.labelCompare)                                   *)
(***************************************************************************)
\* rpmvercmp on two segmented strings: -1, 0 or 1
RECURSIVE rpmvercmp(_, _)
rpmvercmp(a, b) ==
    IF a = <<>> /\ b = <<>> THEN 0
    ELSE IF a = <<>> THEN -1
    ELSE IF b = <<>> THEN 1
    ELSE IF Head(a) < Head(b) THEN -1
    ELSE IF Head(a) > Head(b) THEN 1
    ELSE rpmvercmp(Tail(a), Tail(b))

\* labelCompare((e, v, r), (e, v, r)): epoch, then version, then release
lc(a, b) ==
    IF rpmvercmp(a[1], b[1]) # 0 THEN rpmvercmp(a[1], b[1])
    ELSE IF rpmvercmp(a[2], b[2]) # 0 THEN rpmvercmp(a[2], b[2])
    ELSE rpmvercmp(a[3], b[3])

\* str(vers.epoch)
EpochStr(epoch) == <<epoch>>

(***************************************************************************)
(* RepoView.get_package_data                                               *)
(***************************************************************************)
\* self.sack_query.filter(name=name)
FilterName(pkgs, name) == SelectSeq(pkgs, LAMBDA p : p.name = name)

\* self.sack_query.filter(name__glob=f'{group}*')
FilterGlob(pkgs, letter) == SelectSeq(pkgs, LAMBDA p : <<p.name[1]>> = letter)

_pkg_return(data) ==
    [name |-> data.name, epoch |-> EpochStr(data.epoch), version |-> data.version,
     release |-> data.release, arch |-> data.arch, summary |-> data.summary,
     buildtime |-> data.buildtime, changelogs |-> data.changelogs]

KeyOf(vers) == <<EpochStr(vers.epoch), vers.version, vers.release, vers.arch>>

\* the keys of tempcheck: dict keys keep the position of their first insertion
TempcheckKeys(pkg_query) == FromKeys([i \in 1..Len(pkg_query) |-> KeyOf(pkg_query[i])])

\* tempcheck[key]: a later record with the same key replaces the earlier one
TempcheckValue(pkg_query, key) ==
    LET at == {i \in 1..Len(pkg_query) : KeyOf(pkg_query[i]) = key}
    IN  pkg_query[CHOOSE i \in at : \A j \in at : j <= i]

\* the sort key cmp_to_key(lambda a, b: lc(a[:3], b[:3]))
CmpKeys_slice(a, b) == lc(<<a[1], a[2], <<>>>>, <<b[1], b[2], <<>>>>)

CmpKeys(a, b) == lc(SubSeq(a, 1, 3), SubSeq(b, 1, 3))

\* keys.sort(key=..., reverse=True): descending, equal keys keep their order
SortedKeys(keys) == StableSort(keys, LAMBDA a, b : CmpKeys(a, b) > 0)

Versions(pkg_query) ==
    IF Len(pkg_query) = 1 THEN <<_pkg_return(pkg_query[1])>>
    ELSE LET keys == SortedKeys(TempcheckKeys(pkg_query))
         IN  [i \in 1..Len(keys) |-> _pkg_return(TempcheckValue(pkg_query, keys[i]))]

\* the first version with a summary sets the shared fields
FirstSummary(versions) ==
    LET f[i \in 0..Len(versions)] ==
            IF i = 0 THEN None
            ELSE IF f[i - 1] = None THEN versions[i].summary ELSE f[i - 1]
    IN  f[Len(versions)]

\* str.strip() on the characters in use: blanks off both ends
RECURSIVE LStrip(_)
LStrip(text) ==
    IF text # <<>> /\ Head(text) = " " THEN LStrip(Tail(text)) ELSE text

Strip(text) == Reverse(LStrip(Reverse(LStrip(text))))

\* author[:author.index('<')].strip(), the author itself on ValueError
TrimAuthor(author) ==
    LET at == {i \in 1..Len(author) : author[i] = "<"}
    IN  IF at = {} THEN author
        ELSE Strip(SubSeq(author, 1, (CHOOSE i \in at : \A j \in at : i <= j) - 1))

\* lines 504-515: the loop trims the authors of changelog_list[:2]; the list
\* that goes into the tuple is changelog_list itself
ChangelogList(changelogs) ==
    [i \in 1..Len(changelogs) |->
        IF i <= 2 THEN [changelogs[i] EXCEPT !.author = TrimAuthor(@)]
        ELSE changelogs[i]]

RpmTuple(v) ==
    [epoch |-> v.epoch, version |-> v.version, release |-> v.release,
     arch |-> v.arch, buildtime |-> v.buildtime,
     changelog_list |-> ChangelogList(v.changelogs)]

get_package_data(pkgs, name) ==
    LET versions == Versions(FilterName(pkgs, name))
    IN  [name     |-> name,
         filename |-> ezname(FILE_PKG(name)),
         summary  |-> FirstSummary(versions),
         rpms     |-> [i \in 1..Len(versions) |-> RpmTuple(versions[i])]]

(***************************************************************************)
(* RepoView.get_group_data, get_letter_group_data, proc_latest             *)
(***************************************************************************)
AllGroupPkgs(group) ==
    group.default_packages \o group.mandatory_packages
        \o group.optional_packages \o group.conditional_packages

\* groups that pass "if not group.visible or not all_group_pkgs: continue"
Emitted(group) == group.visible /\ AllGroupPkgs(group) # <<>>

\* pkg_list is created once, before the loop, and every emitted group appends
\* its names to it; each entry of list_of_list holds that one list object
SharedPkgList(grps) ==
    LET f[i \in 0..Len(grps)] ==
            IF i = 0 THEN <<>>
            ELSE IF Emitted(grps[i]) THEN f[i - 1] \o AllGroupPkgs(grps[i])
                 ELSE f[i - 1]
    IN  f[Len(grps)]

get_group_data(grps) ==
    LET kept == SelectSeq(grps, Emitted)
    IN  [i \in 1..Len(kept) |->
            [name        |-> kept[i].ui_name,
             description |-> kept[i].ui_description,
             filename    |-> ezname(FILE_GRP(kept[i].id)),
             pkg_list    |-> SharedPkgList(grps)]]

PkgNames(pkgs) == [i \in 1..Len(pkgs) |-> pkgs[i].name]

get_letter_group_data(pkgs, lts) ==
    [i \in 1..Len(lts) |->
        [name        |-> <<"Letter ">> \o lts[i],
         description |-> <<"Packages beginning with the letter \"">> \o lts[i] \o <<"\"">>,
         filename    |-> ezname(FILE_GRP(lts[i])),
         pkg_list    |-> uniqlist(PkgNames(FilterGlob(pkgs, lts[i])))]]

\* the same list from one descending sort that keeps equal buildtimes in order
SortedPkgs_stable(en) == StableSort(en, LAMBDA a, b : a.buildtime > b.buildtime)

\* sorted(set(all_pkgs), key=lambda pkg: pkg.buildtime) and then .reverse()
SortedPkgs(en) == Reverse(StableSort(en, LAMBDA a, b : a.buildtime < b.buildtime))

proc_latest(pkglist) ==
    [i \in 1..Len(pkglist) |->
        [name      |-> pkglist[i].name,
         filename  |-> ezname(FILE_PKG(pkglist[i].name)),
         version   |-> pkglist[i].version,
         release   |-> pkglist[i].release,
         buildtime |-> pkglist[i].buildtime]]

(***************************************************************************)
(* RepoView.proc_packages                                                  *)
(***************************************************************************)
\* "if pkg_data is None": get_package_data returns its dict on every path
IsNone(data) == FALSE

PkgTup(pkg, data) == [name |-> pkg, filename |-> ezname(FILE_PKG(pkg)), summary |-> data.summary]

PackagePage(repo_data, group_data, data) ==
    [kind |-> "package", repo_data |-> repo_data, group_data |-> group_data, pkg_data |-> data]

\* written starts empty on every call; out.writes are the package pages the
\* call opens and writes, in order
proc_packages(pkgs, repo_data, group_data, pkg_list) ==
    LET f[i \in 0..Len(pkg_list)] ==
            IF i = 0 THEN [pkgtups |-> <<>>, written |-> <<>>, writes |-> <<>>]
            ELSE
              LET acc  == f[i - 1]
                  pkg  == pkg_list[i]
                  hit  == {k \in 1..Len(acc.written) : acc.written[k].name = pkg}
                  data == get_package_data(pkgs, pkg)
              IN  IF hit # {}
                  THEN [acc EXCEPT !.pkgtups = Append(@, acc.written[CHOOSE k \in hit : TRUE])]
                  ELSE IF IsNone(data) THEN acc
                  ELSE [pkgtups |-> Append(acc.pkgtups, PkgTup(pkg, data)),
                        written |-> Append(acc.written, PkgTup(pkg, data)),
                        writes  |-> Append(acc.writes,
                                      [name    |-> ezname(FILE_PKG(pkg)),
                                       content |-> PackagePage(repo_data, group_data, data)])]
    IN  f[Len(pkg_list)]

(***************************************************************************)
(* The output directory                                                    *)
(***************************************************************************)
Absent == [state |-> "absent", files |-> {}]

\* os.access(self.outdir, os.R_OK)
Accessible(dir) == dir.state = "dir"

\* open(os.path.join(self.outdir, name), "w+") needs the directory
CanWrite(dir) == dir.state # "absent"

WriteFile(dir, file) ==
    [dir EXCEPT !.files = {g \in @ : g.name # file.name} \cup {file}]

WriteAll(dir, files) ==
    LET f[i \in 0..Len(files)] ==
            IF i = 0 THEN dir ELSE WriteFile(f[i - 1], files[i])
    IN  f[Len(files)]

LayoutName == <<"l", "a", "y", "o", "u", "t">>

LayoutFile == [name |-> LayoutName, content |-> "layout"]

\* os.mkdir raises FileExistsError on a path that exists
MkdirFails(dir) == ~Accessible(dir) /\ dir.state # "absent"

\* lines 583-586: the tree is removed when it is readable, made otherwise
RemoveOrMake(dir) ==
    IF Accessible(dir) THEN Absent ELSE [state |-> "dir", files |-> {}]

\* lines 590-594: copytree makes the missing parents of layout_dest
CopyLayout(dir, has_layout) ==
    IF has_layout /\ ~(Accessible(dir) /\ LayoutName \in {g.name : g \in dir.files})
    THEN [state |-> "dir", files |-> dir.files \cup {LayoutFile}]
    ELSE dir

setup_output(dir, has_layout) == CopyLayout(RemoveOrMake(dir), has_layout)

(***************************************************************************)
(* Bounds and the inputs of the runs                                       *)
(***************************************************************************)
MaxGroups == 2      \* comps groups of a run
MaxPkgs == 1        \* packages in the sack of a run
MaxRecents == 1     \* largest options.recents of a run
MaxDay == 2         \* days on which a run can take place
MaxRecs == 3        \* records in the sack of a resolver specification
MaxLatest == 3      \* packages in the sack of a latest-list specification
MaxBuildtime == 3   \* largest buildtime of a latest-list specification
MaxDefs == 2        \* comps groups of a group-builder specification
MaxLog == 3         \* changelog entries of a record
MaxLogPkgs == 1     \* records in the sack of a changelog specification

NameA == <<"a">>
NameB == <<"b", "a">>
NameGhost == <<"g">>    \* a name comps lists and no repository carries

Pkg(n, e, v, r, a, s, bt) ==
    [name |-> n, epoch |-> e, version |-> v, release |-> r, arch |-> a,
     summary |-> s, buildtime |-> bt, changelogs |-> <<>>]

PkgWithChangelogs(pkg, changelogs) ==
    [name |-> pkg.name, epoch |-> pkg.epoch, version |-> pkg.version,
     release |-> pkg.release, arch |-> pkg.arch, summary |-> pkg.summary,
     buildtime |-> pkg.buildtime, changelogs |-> changelogs]

GroupDef(i, vis, d, m, o, c) ==
    [id |-> <<"x", IF i % 2 = 1 THEN " " ELSE "/", "y">> \o [k \in 1..(i - 1) |-> "z"],
     ui_name |-> <<"Group ", ToString(i)>>,
     ui_description |-> <<"About group ", ToString(i)>>,
     visible |-> vis, default_packages |-> d, mandatory_packages |-> m,
     optional_packages |-> o, conditional_packages |-> c]

\* comps of a run: the members come as default packages; a group is hidden,
\* without members, or visible with a member the repository may carry
RunMembers ==
    {<<FALSE, <<NameA>>>>, <<TRUE, <<>>>>, <<TRUE, <<NameA>>>>, <<TRUE, <<NameGhost>>>>}

RunComps ==
    UNION {{[i \in 1..k |-> GroupDef(i, f[i][1], f[i][2], <<>>, <<>>, <<>>)] :
              f \in [1..k -> RunMembers]} :
           k \in 0..MaxGroups}

RunPkgs ==
    {Pkg(NameA, 0, <<1>>, <<1>>, "x86_64", "s1", 1),
     Pkg(NameA, 0, <<1>>, <<2>>, "x86_64", "s2", 2),
     Pkg(NameB, 0, <<1>>, <<1>>, "x86_64", "s1", 1)}

RunSacks == SeqsUpTo(RunPkgs, MaxPkgs)

OldFile == [name |-> <<"o", "l", "d">>, content |-> "old"]

InitialDirs ==
    {Absent, [state |-> "dir", files |-> {OldFile}],
     [state |-> "unreadable", files |-> {OldFile}]}

\* comps of a group-builder specification: all four package lists
BuilderComps ==
    UNION {{[i \in 1..k |-> GroupDef(i, f[i][1], f[i][2], f[i][3], f[i][4], f[i][5])] :
              f \in [1..k -> BOOLEAN \X {<<>>, <<NameA>>} \X {<<>>, <<NameGhost>>}
                                \X {<<>>, <<NameB>>} \X {<<>>, <<NameA>>}]} :
           k \in 0..MaxDefs}

\* sack of a resolver specification: one name in several versions and architectures
ResolverPkgs ==
    {Pkg(NameA, e, v, <<r>>, a, s, 1) :
        e \in {0, 1}, v \in {<<1>>, <<1, 1>>}, r \in 1..2,
        a \in {"x86_64", "aarch64"}, s \in {"s1"}}

ResolverSacks == SeqsUpTo(ResolverPkgs, MaxRecs)

\* sack of a latest-list specification: listed by name and buildtime; set(all_pkgs)
\* enumerates it in any order
LatestPkgs ==
    {Pkg(n, 0, <<1>>, <<1>>, "x86_64", "s1", bt) :
        n \in {NameA, NameB}, bt \in 1..MaxBuildtime}

PkgRank(p) == (IF p.name = NameA THEN 0 ELSE MaxBuildtime + 1) + p.buildtime

LatestSacks ==
    {s \in SeqsUpTo(LatestPkgs, MaxLatest) :
        \A i \in 1..(Len(s) - 1) : PkgRank(s[i]) <= PkgRank(s[i + 1])}

(***************************************************************************)
(* RepoView.__init__, step by step                                         *)
(***************************************************************************)
Idle ==
    /\ groups = <<>> /\ letters = <<>> /\ letter_groups = <<>>
    /\ sorted_pkgs = <<>> /\ latest = <<>> /\ enum = <<>>
    /\ worklist = <<>> /\ gidx = 0 /\ counter = 0
    /\ processed = <<>> /\ write_log = <<>>
    /\ query_name = <<>> /\ pkg_data = None

Init ==
    /\ pc = "load_dnf"
    /\ fs \in InitialDirs /\ fs0 = fs
    /\ layout_src \in BOOLEAN
    /\ recents \in 0..MaxRecents
    /\ comps = <<>> /\ sack = <<>>
    /\ run = 1 /\ prev = None
    /\ Idle

\* lines 263-274: sys.exit(50) when dnf has no cachedir
LoadDnf ==
    /\ pc = "load_dnf"
    /\ \E cachedir_ok \in BOOLEAN :
          pc' = IF cachedir_ok THEN "read_repos" ELSE "exit_50"
    /\ UNCHANGED <<fs, layout_src, comps, sack, enum, recents, groups, letters,
                   letter_groups, sorted_pkgs, latest, worklist, gidx, counter,
                   processed, write_log, query_name, pkg_data, run, prev, fs0>>

\* lines 276-295: sys.exit(1) when the repositories cannot be read
ReadRepos ==
    /\ pc = "read_repos"
    /\ \E ok \in BOOLEAN : pc' = IF ok THEN "get_data" ELSE "exit_1"
    /\ UNCHANGED <<fs, layout_src, comps, sack, enum, recents, groups, letters,
                   letter_groups, sorted_pkgs, latest, worklist, gidx, counter,
                   processed, write_log, query_name, pkg_data, run, prev, fs0>>

\* the same step with the output directory set up ahead of the metadata
GetData_setup_first ==
    /\ pc = "get_data"
    /\ fs' = setup_output(fs, layout_src)
    /\ \/ /\ pc' = "exit_1"
          /\ UNCHANGED <<comps, sack>>
       \/ /\ pc' = "group_data"
          /\ \E c \in RunComps, s \in RunSacks :
                /\ IF run = 1 THEN TRUE ELSE c = prev.comps /\ s = prev.sack
                /\ comps' = c /\ sack' = s
    /\ UNCHANGED <<layout_src, enum, recents, groups, letters,
                   letter_groups, sorted_pkgs, latest, worklist, gidx, counter,
                   processed, write_log, query_name, pkg_data, run, prev, fs0>>

\* lines 297-306: fill_sack loads comps and packages, or sys.exit(1);
\* a re-run finds the metadata the first run found
GetData ==
    /\ pc = "get_data"
    /\ \/ /\ pc' = "exit_1"
          /\ UNCHANGED <<comps, sack>>
       \/ /\ pc' = "group_data"
          /\ \E c \in RunComps, s \in RunSacks :
                /\ IF run = 1 THEN TRUE ELSE c = prev.comps /\ s = prev.sack
                /\ comps' = c /\ sack' = s
    /\ UNCHANGED <<fs, layout_src, enum, recents, groups, letters,
                   letter_groups, sorted_pkgs, latest, worklist, gidx, counter,
                   processed, write_log, query_name, pkg_data, run, prev, fs0>>

\* lines 309-313
GroupData ==
    /\ pc = "group_data"
    /\ groups' = get_group_data(comps)
    /\ pc' = "setup_output"
    /\ UNCHANGED <<fs, layout_src, comps, sack, enum, recents, letters,
                   letter_groups, sorted_pkgs, latest, worklist, gidx, counter,
                   processed, write_log, query_name, pkg_data, run, prev, fs0>>

\* line 315
SetupOutput ==
    /\ pc = "setup_output"
    /\ IF MkdirFails(fs)
       THEN pc' = "crashed" /\ fs' = fs
       ELSE pc' = "packages" /\ fs' = setup_output(fs, layout_src)
    /\ UNCHANGED <<layout_src, comps, sack, enum, recents, groups, letters,
                   letter_groups, sorted_pkgs, latest, worklist, gidx, counter,
                   processed, write_log, query_name, pkg_data, run, prev, fs0>>

\* lines 317-339
PackageThings ==
    /\ pc = "packages"
    /\ \E en \in Orderings(sack) :
          /\ enum' = en
          /\ sorted_pkgs' = SortedPkgs(en)
          /\ letters' = unique_first_chara(FromKeys(PkgNames(SortedPkgs(en))))
          /\ letter_groups' = get_letter_group_data(sack, letters')
          /\ latest' = proc_latest(Take(SortedPkgs(en), recents))
    /\ pc' = "proc_groups"
    /\ UNCHANGED <<fs, layout_src, comps, sack, recents, groups, worklist, gidx,
                   counter, processed, write_log, query_name, pkg_data, run,
                   prev, fs0>>

repo_filler == [letters |-> letters, latest |-> latest]

\* lines 360-362: the loop runs over a list built once, before it starts
ProcGroupsStart ==
    /\ pc = "proc_groups"
    /\ worklist' = groups \o letter_groups
    /\ counter' = 0 /\ gidx' = 0
    /\ pc' = "group_loop"
    /\ UNCHANGED <<fs, layout_src, comps, sack, enum, recents, groups, letters,
                   letter_groups, sorted_pkgs, latest, processed, write_log,
                   query_name, pkg_data, run, prev, fs0>>

GroupPage(group_filler) ==
    [name    |-> group_filler.filename,
     content |-> [kind |-> "group", repo_data |-> repo_filler, group_data |-> group_filler]]

\* lines 363-393: one pass of the loop of proc_groups
ProcGroup ==
    /\ pc = "group_loop" /\ gidx < Len(worklist)
    /\ LET entry   == worklist[gidx + 1]
           shell   == [name |-> entry.name, description |-> entry.description,
                       filename |-> entry.filename]
           out     == proc_packages(sack, repo_filler, shell, SortedStrings(entry.pkg_list))
           filler  == [name |-> entry.name, description |-> entry.description,
                       filename |-> entry.filename, packages |-> out.pkgtups]
           names   == [i \in 1..Len(out.writes) |-> out.writes[i].name]
       IN  IF out.writes # <<>> /\ ~CanWrite(fs)
           THEN \* open() of the first package page raises FileNotFoundError
                /\ pc' = "crashed"
                /\ UNCHANGED <<fs, groups, gidx, counter, processed, write_log>>
           ELSE IF out.pkgtups = <<>>
           THEN IF counter < Len(groups)
                THEN /\ groups' = SubSeq(groups, 1, counter)
                                    \o SubSeq(groups, counter + 2, Len(groups))
                     /\ gidx' = gidx + 1
                     /\ processed' = Append(processed, filler)
                     /\ pc' = "group_loop"
                     /\ UNCHANGED <<fs, counter, write_log>>
                ELSE \* del self.groups[counter] raises IndexError
                     /\ pc' = "crashed"
                     /\ UNCHANGED <<fs, groups, gidx, counter, processed, write_log>>
           ELSE IF ~CanWrite(fs)
           THEN /\ pc' = "crashed"
                /\ UNCHANGED <<fs, groups, gidx, counter, processed, write_log>>
           ELSE /\ fs' = WriteFile(WriteAll(fs, out.writes), GroupPage(filler))
                /\ write_log' = write_log \o names \o <<filler.filename>>
                /\ counter' = counter + 1
                /\ gidx' = gidx + 1
                /\ processed' = Append(processed, filler)
                /\ pc' = "group_loop"
                /\ UNCHANGED groups
    /\ UNCHANGED <<layout_src, comps, sack, enum, recents, letters, letter_groups,
                   sorted_pkgs, latest, worklist, query_name, pkg_data, run,
                   prev, fs0>>

\* the loop of proc_groups is over
ProcGroupsEnd ==
    /\ pc = "group_loop" /\ gidx = Len(worklist)
    /\ pc' = "index"
    /\ UNCHANGED <<fs, layout_src, comps, sack, enum, recents, groups, letters,
                   letter_groups, sorted_pkgs, latest, worklist, gidx, counter,
                   processed, write_log, query_name, pkg_data, run, prev, fs0>>

IndexPage(day) ==
    [name    |-> FILE_INDEX,
     content |-> [kind |-> "index", repo_data |-> repo_filler, latest |-> latest,
                  groups |-> groups, time |-> day]]

\* lines 344-354: time.strftime gives the day of the run
WriteIndex ==
    /\ pc = "index"
    /\ IF CanWrite(fs)
       THEN \E day \in 1..MaxDay :
              /\ fs' = WriteFile(fs, IndexPage(day))
              /\ write_log' = Append(write_log, FILE_INDEX)
              /\ pc' = "done"
       ELSE pc' = "crashed" /\ UNCHANGED <<fs, write_log>>
    /\ UNCHANGED <<layout_src, comps, sack, enum, recents, groups, letters,
                   letter_groups, sorted_pkgs, latest, worklist, gidx, counter,
                   processed, query_name, pkg_data, run, prev, fs0>>

Next ==
    \/ LoadDnf \/ ReadRepos \/ GetData \/ GroupData \/ SetupOutput
    \/ PackageThings \/ ProcGroupsStart \/ ProcGroup \/ ProcGroupsEnd \/ WriteIndex

Spec == Init /\ [][Next]_vars

(***************************************************************************)
(* A second run over the same metadata, configuration and output path      *)
(***************************************************************************)
Rerun ==
    /\ pc = "done" /\ run = 1
    /\ prev' = [files |-> fs.files, latest |-> latest, groups |-> groups,
                processed |-> processed, comps |-> comps, sack |-> sack]
    /\ run' = 2
    /\ fs0' = fs
    /\ pc' = "load_dnf"
    /\ comps' = <<>> /\ sack' = <<>>
    /\ groups' = <<>> /\ letters' = <<>> /\ letter_groups' = <<>>
    /\ sorted_pkgs' = <<>> /\ latest' = <<>> /\ enum' = <<>>
    /\ worklist' = <<>> /\ gidx' = 0 /\ counter' = 0
    /\ processed' = <<>> /\ write_log' = <<>>
    /\ UNCHANGED <<fs, layout_src, recents, query_name, pkg_data>>

NextRerun == Next \/ Rerun

SpecRerun == Init /\ [][NextRerun]_vars

(***************************************************************************)
(* get_package_data on its own                                             *)
(***************************************************************************)
Pinned ==
    /\ fs = Absent /\ fs0 = Absent /\ layout_src = FALSE
    /\ run = 1 /\ prev = None
    /\ Idle

InitResolve ==
    /\ pc = "resolve"
    /\ sack \in ResolverSacks
    /\ comps = <<>> /\ recents = 0
    /\ Pinned

Resolve ==
    /\ pc = "resolve"
    /\ \E name \in {NameA, NameGhost} :
          /\ query_name' = name
          /\ pkg_data' = get_package_data(sack, name)
    /\ pc' = "resolved"
    /\ UNCHANGED <<fs, layout_src, comps, sack, enum, recents, groups, letters,
                   letter_groups, sorted_pkgs, latest, worklist, gidx, counter,
                   processed, write_log, run, prev, fs0>>

SpecResolve == InitResolve /\ [][Resolve]_vars

\* sack of a changelog specification: records of one name with changelogs
ChangelogEntries ==
    {[author |-> a, text |-> t] :
        a \in {<<"a", " ", "<", "b", ">">>, <<"c">>}, t \in {"t1", "t2"}}

ChangelogPkgs ==
    {PkgWithChangelogs(Pkg(NameA, 0, <<1>>, <<r>>, "x86_64", "s1", r), cl) :
        r \in 1..2, cl \in SeqsUpTo(ChangelogEntries, MaxLog)}

ChangelogSacks == SeqsUpTo(ChangelogPkgs, MaxLogPkgs)

InitChangelog ==
    /\ pc = "resolve"
    /\ sack \in ChangelogSacks
    /\ comps = <<>> /\ recents = 0
    /\ Pinned

SpecChangelog == InitChangelog /\ [][Resolve]_vars

(***************************************************************************)
(* The latest list on its own                                              *)
(***************************************************************************)
InitLatest ==
    /\ pc = "packages"
    /\ sack \in LatestSacks
    /\ recents \in 0..MaxLatest
    /\ comps = <<>>
    /\ Pinned

SpecLatest == InitLatest /\ [][PackageThings]_vars

(***************************************************************************)
(* get_group_data on its own                                               *)
(***************************************************************************)
InitGroupData ==
    /\ pc = "group_data"
    /\ comps \in BuilderComps
    /\ sack = <<>> /\ recents = 0
    /\ Pinned

SpecGroupData == InitGroupData /\ [][GroupData]_vars

(***************************************************************************)
(* Properties                                                              *)
(***************************************************************************)
Count(s, x) == Cardinality({i \in 1..Len(s) : s[i] = x})

HasRecords(name) == FilterName(sack, name) # <<>>

\* the worklist entries whose member list names the package
GroupsNaming(name) == {k \in 1..Len(worklist) : name \in Range(worklist[k].pkg_list)}

AllMembers == UNION {Range(worklist[k].pkg_list) : k \in 1..Len(worklist)}

\* C1: at the end of a run, a package that has records and is a member of two
\* or more processed groups has had its page slug(name).html written exactly
\* once in the whole run.
C1_SharedPackageWrittenOnce ==
    pc = "done" =>
        \A name \in AllMembers :
            (HasRecords(name) /\ Cardinality(GroupsNaming(name)) >= 2)
                => Count(write_log, ezname(FILE_PKG(name))) = 1

\* C2: a group member whose query yields no version record is skipped: it is
\* not in the resolved package list of any processed group and no page is
\* written for it.
C2_NoDataMemberSkipped ==
    \A k \in 1..Len(processed) :
        \A name \in Range(worklist[k].pkg_list) :
            ~HasRecords(name) =>
                /\ \A i \in 1..Len(processed[k].packages) :
                        processed[k].packages[i].name # name
                /\ Count(write_log, ezname(FILE_PKG(name))) = 0

Curated == SubSeq(worklist, 1, Len(worklist) - Len(letter_groups))

Resolvable(entry) == \E name \in Range(entry.pkg_list) : HasRecords(name)

\* C3: at the end of a run, a group page has been written exactly for the
\* groups with a member that resolves, the index lists exactly the curated
\* groups with a member that resolves, in their order, and the run has not
\* stopped over a group without one.
C3_EmptyGroupsDropped ==
    /\ pc = "done" =>
          /\ \A k \in 1..Len(worklist) :
                Resolvable(worklist[k]) <=> worklist[k].filename \in Range(write_log)
          /\ groups = SelectSeq(Curated, Resolvable)
    /\ pc = "crashed" => fs.state \in {"absent", "unreadable"}

KeptDefs == SelectSeq(comps, LAMBDA g : g.visible /\ AllGroupPkgs(g) # <<>>)

\* C4: the group builder emits one shell per visible definition with members,
\* in definition order, and the member list of each shell is the merged
\* member list of its own definition.
C4_ShellHoldsOwnMembers ==
    pc = "setup_output" =>
        /\ Len(groups) = Len(KeptDefs)
        /\ \A i \in 1..Len(groups) :
              /\ groups[i].filename = ezname(FILE_GRP(KeptDefs[i].id))
              /\ groups[i].pkg_list = AllGroupPkgs(KeptDefs[i])

RpmKey(r) == <<r.epoch, r.version, r.release, r.arch>>

FirstAt(s, x) == CHOOSE i \in 1..Len(s) : s[i] = x /\ \A j \in 1..(i - 1) : s[j] # x

QueryKeys == [i \in 1..Len(FilterName(sack, query_name)) |-> KeyOf(FilterName(sack, query_name)[i])]

\* C5: the resolved versions of a package hold one record per distinct
\* (epoch, version, release, arch) of its records, in descending
\* epoch/version/release order, and records equal in epoch/version/release
\* stand in the order in which their keys first came in.
C5_VersionsDedupedSortedStable ==
    pc = "resolved" =>
        LET rpms == pkg_data.rpms
        IN  /\ {RpmKey(rpms[i]) : i \in 1..Len(rpms)} = Range(QueryKeys)
            /\ Len(rpms) = Cardinality(Range(QueryKeys))
            /\ \A i, j \in 1..Len(rpms) :
                  i < j =>
                    /\ lc(SubSeq(RpmKey(rpms[i]), 1, 3), SubSeq(RpmKey(rpms[j]), 1, 3)) >= 0
                    /\ lc(SubSeq(RpmKey(rpms[i]), 1, 3), SubSeq(RpmKey(rpms[j]), 1, 3)) = 0
                         => FirstAt(QueryKeys, RpmKey(rpms[i])) < FirstAt(QueryKeys, RpmKey(rpms[j]))

\* the example of the specification, up to the values: one newer record, then
\* two architectures of one older version
C5_Witness ==
    /\ pc = "resolved"
    /\ Len(FilterName(sack, query_name)) = 3
    /\ Len(pkg_data.rpms) = 3
    /\ pkg_data.rpms[1].release = <<2>> /\ pkg_data.rpms[2].release = <<1>>
    /\ pkg_data.rpms[2].version = pkg_data.rpms[3].version
    /\ pkg_data.rpms[2].epoch = pkg_data.rpms[3].epoch
    /\ pkg_data.rpms[2].release = pkg_data.rpms[3].release
    /\ pkg_data.rpms[2].arch = "x86_64" /\ pkg_data.rpms[3].arch = "aarch64"
    /\ sack[3].release = <<2>>

IndexOrders(n) ==
    {p \in [1..n -> 1..n] : \A i, j \in 1..n : p[i] = p[j] => i = j}

\* latest is the first recents entries of the enumeration put in order p
LatestFollows(p) ==
    /\ Len(latest) = Min(recents, Len(enum))
    /\ \A i \in 1..Len(latest) :
          /\ latest[i].name = enum[p[i]].name
          /\ latest[i].filename = ezname(FILE_PKG(enum[p[i]].name))
          /\ latest[i].version = enum[p[i]].version
          /\ latest[i].release = enum[p[i]].release
          /\ latest[i].buildtime = enum[p[i]].buildtime

\* C6 as stated: the latest list is the first N entries of the enumeration in
\* descending buildtime order, entries of equal buildtime in enumeration order.
C6_TiesInEnumerationOrder ==
    pc = "proc_groups" =>
        \E p \in IndexOrders(Len(enum)) :
            /\ \A i, j \in 1..Len(enum) :
                  i < j => \/ enum[p[i]].buildtime > enum[p[j]].buildtime
                           \/ /\ enum[p[i]].buildtime = enum[p[j]].buildtime
                              /\ p[i] < p[j]
            /\ LatestFollows(p)

\* C6, amended: the latest list is the first N entries of the enumeration in
\* descending buildtime order, entries of equal buildtime in the reverse of
\* their enumeration order.
C6_TiesInReverseEnumerationOrder ==
    pc = "proc_groups" =>
        \E p \in IndexOrders(Len(enum)) :
            /\ \A i, j \in 1..Len(enum) :
                  i < j => \/ enum[p[i]].buildtime > enum[p[j]].buildtime
                           \/ /\ enum[p[i]].buildtime = enum[p[j]].buildtime
                              /\ p[i] > p[j]
            /\ LatestFollows(p)

\* two packages of one buildtime lead the list and a third entry is cut off
C6_Witness ==
    /\ pc = "proc_groups"
    /\ recents = 2 /\ Len(enum) > 2 /\ Len(latest) = 2
    /\ latest[1].buildtime = latest[2].buildtime
    /\ latest[1].name # latest[2].name
    /\ enum[1].name = latest[2].name /\ enum[1].buildtime = latest[2].buildtime

MaxBuildtimeOf(name) ==
    CHOOSE bt \in {p.buildtime : p \in Range(FilterName(sack, name))} :
        \A p \in Range(FilterName(sack, name)) : p.buildtime <= bt

\* C7: the latest list holds at most one entry per package name, and the
\* entry of a name carries the most recent buildtime of that name.
C7_LatestOnePerName ==
    pc = "proc_groups" =>
        /\ \A i, j \in 1..Len(latest) : latest[i].name = latest[j].name => i = j
        /\ \A i \in 1..Len(latest) : latest[i].buildtime = MaxBuildtimeOf(latest[i].name)

\* C8: once setup_output has returned, the output directory exists and holds
\* nothing of what it held before.
C8_OutputDirReady ==
    pc = "packages" =>
        /\ fs.state = "dir"
        /\ fs.files \cap fs0.files = {}

\* C9: a second run over the same metadata and configuration ends like the
\* first one and leaves the same files with the same contents, the same
\* latest list and the same groups in the index.
C9_RerunSameOutput ==
    (run = 2 /\ pc \in {"done", "crashed"}) =>
        /\ pc = "done"
        /\ fs.files = prev.files
        /\ latest = prev.latest
        /\ groups = prev.groups

\* C10: when the metadata cannot be loaded the run exits with the output
\* directory as it found it: not removed, not created, nothing written.
C10_AbortLeavesOutputUntouched ==
    pc = "exit_1" => fs = fs0 /\ write_log = <<>>

\* the metadata failed to load while an earlier output tree was on disk
C10_Witness ==
    /\ pc = "exit_1"
    /\ fs0.state = "dir" /\ fs0.files # {}
    /\ layout_src

\* C11: the resolved package list of a processed group holds each package
\* name at most once, also when the member list of the group repeats a name.
C11_ResolvedListHasNoDuplicates ==
    \A k \in 1..Len(processed) :
        \A i, j \in 1..Len(processed[k].packages) :
            processed[k].packages[i].name = processed[k].packages[j].name => i = j

\* the records of the queried name that an entry of rpms can come from
RecordsOf(rpm) ==
    {r \in Range(FilterName(sack, query_name)) : KeyOf(r) = RpmKey(rpm)}

\* C12: the changelog attached to each version of a resolved package holds at
\* most 2 entries: the first two entries of the changelog of its record, in
\* their order, all of them when the record has fewer.
C12_ChangelogFirstTwo ==
    pc = "resolved" =>
        \A i \in 1..Len(pkg_data.rpms) :
            \E r \in RecordsOf(pkg_data.rpms[i]) :
                /\ Len(pkg_data.rpms[i].changelog_list) = Min(2, Len(r.changelogs))
                /\ \A k \in 1..Min(2, Len(r.changelogs)) :
                      /\ k <= Len(pkg_data.rpms[i].changelog_list)
                      /\ pkg_data.rpms[i].changelog_list[k].text = r.changelogs[k].text

====
